---- MODULE Spec2Model ----
(***************************************************************************)
(* Trial lifecycle of the Doggo/Nogo reaction-time game.                   *)
(*                                                                         *)
(* Two level objects are modelled side by side, selected by params.level:  *)
(*   "level1"  the baseline simple-RT level (ArrowDown, adaptive phase     *)
(*             targets, Slow = 0 points, timeouts are not logged)          *)
(*   "level2"  the directional level (ArrowLeft/ArrowRight, fixed phase    *)
(*             targets, Slow = +minScore/2, Error = -minScore/2)           *)
(*                                                                         *)
(* Units.  Times are milliseconds.  The reaction times the model draws are *)
(* even integers, so the mean of two of them is an integer and medianRT    *)
(* stays an integer.  Score-like quantities (score, phaseFloorScore,       *)
(* phaseRequiredScores, outcome points, logged Score / ScoreChange) are    *)
(* held in units of 1/ScoreScale point, so that the fractional points of a *)
(* Fast response are exact.  The 1e-6 tolerance of the phase-end           *)
(* comparison is smaller than one such unit and therefore vanishes.        *)
(***************************************************************************)
EXTENDS Integers, Sequences, FiniteSets, TLC

\* ---------------------------------------------------------------- bounds
\* Number of finishTrial calls explored in one run of a level.
MaxFinish == 3

\* Reaction times (ms) a key press can measure: now() - startTime.
RTs == {0, 500, 1500, 2500}

\* Keys the keyboard can deliver (" " is SPACE, "x" stands for any other key).
Keys == {"ArrowDown", "ArrowLeft", "ArrowRight", " ", "s", "x"}

\* Fast points are minScore + (1 - c/M)(maxScore - minScore) with M a
\* multiple of 500 up to 5000: every such fraction is a multiple of 1/2520.
ScoreScale == 8 * 9 * 5 * 7

\* ------------------------------------------------------ program constants
NA == -1             \* the "NA" / undefined / null marker of numeric fields
Null == 0            \* a null timer handle
Undefined == -2      \* an option the caller did not pass
NaN == -3            \* the result of arithmetic on undefined
InitialMedianRT == 1000
InitialMaxRT == 2000
minScore == 100
maxScore == 200
minTrialsPerPhase == 4

Max(a, b) == IF a >= b THEN a ELSE b
Min(a, b) == IF a <= b THEN a ELSE b
\* Math.ceil(a / b) for a >= 0, b > 0
CeilDiv(a, b) == (a + b - 1) \div b
\* A number of points in score units.
Pts(p) == p * ScoreScale

\* Level configurations: the defaults of each level object, plus overrides
\* that engine.run applies through options.levelParams.
Level1Params == [level |-> "level1", trialsNumber |-> 6, dNum |-> 3, dDen |-> 4]
Level2Params == [level |-> "level2", trialsNumber |-> 18, dNum |-> 1, dDen |-> 1]
Configs ==
    { Level1Params,
      [Level1Params EXCEPT !.dNum = 2, !.dDen = 5],
      [Level1Params EXCEPT !.trialsNumber = 22],
      [Level2Params EXCEPT !.trialsNumber = 3] }

VARIABLES
    params,                    \* level.params (fixed during a run)
    gameState,                 \* "playing" | "done"
    score,
    trials,
    reactionTimes,
    medianRT,
    maxRT,
    phaseIndex,
    inBreak,
    breakState,                \* "idle" | "started" | "effects" | "ready"
    phaseRequiredScores,
    phaseFloorScore,
    stimulus,                  \* [visible, exiting, side, difficulty]
    pendingStimulusTimeoutId,  \* handle of the ISI timer, or Null
    currentTrialTimeoutId,     \* handle of the response-timeout timer, or Null
    timers,                    \* the browser's armed timers: [id, kind, delay]
    data,                      \* the trial log
    finishCalls,               \* number of finishTrial calls so far
    lastOutcome,               \* the outcome passed to the last finishTrial
    callbackCalls,             \* number of endGameCallback invocations
    nextTimerId                \* the handle the next setTimeout returns

vars == <<params, gameState, score, trials, reactionTimes, medianRT, maxRT,
          phaseIndex, inBreak, breakState, phaseRequiredScores,
          phaseFloorScore, stimulus, pendingStimulusTimeoutId,
          currentTrialTimeoutId, timers, data, finishCalls, lastOutcome,
          callbackCalls, nextTimerId>>

\* The mutable level.state as one record, so that the handlers compose.
St ==
    [gameState |-> gameState, score |-> score, trials |-> trials,
     reactionTimes |-> reactionTimes, medianRT |-> medianRT, maxRT |-> maxRT,
     phaseIndex |-> phaseIndex, inBreak |-> inBreak, breakState |-> breakState,
     phaseRequiredScores |-> phaseRequiredScores,
     phaseFloorScore |-> phaseFloorScore, stimulus |-> stimulus,
     pendingStimulusTimeoutId |-> pendingStimulusTimeoutId,
     currentTrialTimeoutId |-> currentTrialTimeoutId, timers |-> timers,
     data |-> data, finishCalls |-> finishCalls, lastOutcome |-> lastOutcome,
     callbackCalls |-> callbackCalls, nextTimerId |-> nextTimerId]

Commit(n) ==
    /\ gameState' = n.gameState
    /\ score' = n.score
    /\ trials' = n.trials
    /\ reactionTimes' = n.reactionTimes
    /\ medianRT' = n.medianRT
    /\ maxRT' = n.maxRT
    /\ phaseIndex' = n.phaseIndex
    /\ inBreak' = n.inBreak
    /\ breakState' = n.breakState
    /\ phaseRequiredScores' = n.phaseRequiredScores
    /\ phaseFloorScore' = n.phaseFloorScore
    /\ stimulus' = n.stimulus
    /\ pendingStimulusTimeoutId' = n.pendingStimulusTimeoutId
    /\ currentTrialTimeoutId' = n.currentTrialTimeoutId
    /\ timers' = n.timers
    /\ data' = n.data
    /\ finishCalls' = n.finishCalls
    /\ lastOutcome' = n.lastOutcome
    /\ callbackCalls' = n.callbackCalls
    /\ nextTimerId' = n.nextTimerId
    /\ UNCHANGED params

\* ------------------------------------------------------------ the timers
\* setTimeout(callback, delay): the browser arms a timer and returns a fresh
\* handle; handles grow and are never reused.
setTimeout(s, kind, delay) ==
    [s EXCEPT !.timers = @ \cup {[id |-> s.nextTimerId, kind |-> kind, delay |-> delay]},
              !.nextTimerId = @ + 1]

\* Mutant: clearTimeout that disarms nothing.
clearTimeout_Noop(ts, id) == ts

\* clearTimeout(id): the timer with that handle, if still armed, is disarmed.
clearTimeout(ts, id) == {t \in ts : t.id # id}

\* DoggoNogoCore.clearTrialTimers(state); level 1 inlines the same code.
clearTrialTimers(s) ==
    LET s1 == IF s.pendingStimulusTimeoutId # Null
              THEN [s EXCEPT !.timers = clearTimeout(@, s.pendingStimulusTimeoutId),
                             !.pendingStimulusTimeoutId = Null]
              ELSE s
    IN  IF s1.currentTrialTimeoutId # Null
        THEN [s1 EXCEPT !.timers = clearTimeout(@, s1.currentTrialTimeoutId),
                        !.currentTrialTimeoutId = Null]
        ELSE s1

\* ------------------------------------------------------------ the median
RECURSIVE Insert(_, _)
Insert(x, sorted) ==
    IF sorted = <<>> THEN <<x>>
    ELSE IF x <= Head(sorted) THEN <<x>> \o sorted
    ELSE <<Head(sorted)>> \o Insert(x, Tail(sorted))

\* [...arr].sort((a, b) => a - b)
RECURSIVE SortAsc(_)
SortAsc(arr) == IF arr = <<>> THEN <<>> ELSE Insert(Head(arr), SortAsc(Tail(arr)))

\* Mutant: the median taken without sorting first.
computeMedian_Unsorted(arr, cur) ==
    IF Len(arr) = 0 THEN cur
    ELSE LET mid == Len(arr) \div 2
         IN  IF Len(arr) % 2 # 0
             THEN arr[mid + 1]
             ELSE (arr[mid] + arr[mid + 1]) \div 2

\* computeMedian(arr); cur is this.state.medianRT.  JS indexes from 0, a
\* sequence from 1: s[mid] is sorted[mid + 1].
computeMedian(arr, cur) ==
    IF Len(arr) = 0 THEN cur
    ELSE LET sorted == SortAsc(arr)
             mid == Len(sorted) \div 2
         IN  IF Len(sorted) % 2 # 0
             THEN sorted[mid + 1]
             ELSE (sorted[mid] + sorted[mid + 1]) \div 2

\* ------------------------------------------------------ threshold, targets
\* Mutant: the divisor is used without the "> 0" guard.
thresholdFor_NoGuard(m, dNum, dDen) == <<m * dDen, dNum>>

\* m / d as the fraction <<num, den>>, for d = dNum/dDen the value of
\* params.gameDifficulty when that is > 0 and d = 1 otherwise (a missing
\* gameDifficulty is falsy, like 0: dNum = 0 stands for both).
thresholdFor(m, dNum, dDen) ==
    IF dNum > 0 THEN <<m * dDen, dNum>> ELSE <<m, 1>>

\* getEffectiveThreshold() = medianRT / d.
getEffectiveThreshold(s) == thresholdFor(s.medianRT, params.dNum, params.dDen)

\* reactionTime > threshold
ExceedsThreshold(rt, thr) == rt * thr[2] > thr[1]

\* Mutant: the fixed target of a phase is that of the whole level.
computePhaseTarget_WholeLevel(s, phaseIdx) ==
    IF params.level = "level2" THEN Pts(params.trialsNumber * minScore)
    ELSE LET phasesRemaining == Max(1, 3 - phaseIdx)
             trialsLeft == Max(0, params.trialsNumber - s.trials)
             trialsThisPhase == CeilDiv(trialsLeft, phasesRemaining)
             expectedFast == trialsThisPhase \div 2
             estimatedTarget == expectedFast * minScore
             minTargetByTrials == (minTrialsPerPhase * minScore) \div 2
         IN  Pts(Max(Max(minScore, minTargetByTrials), estimatedTarget))

\* Mutant: the expected number of Fast trials is rounded up.
computePhaseTarget_RoundUp(s, phaseIdx) ==
    IF params.level = "level2" THEN Pts(CeilDiv(params.trialsNumber, 3) * minScore)
    ELSE LET phasesRemaining == Max(1, 3 - phaseIdx)
             trialsLeft == Max(0, params.trialsNumber - s.trials)
             trialsThisPhase == CeilDiv(trialsLeft, phasesRemaining)
             expectedFast == CeilDiv(trialsThisPhase, 2)
             estimatedTarget == expectedFast * minScore
             minTargetByTrials == (minTrialsPerPhase * minScore) \div 2
         IN  Pts(Max(Max(minScore, minTargetByTrials), estimatedTarget))

\* computePhaseTarget(phaseIdx), in score units.
computePhaseTarget(s, phaseIdx) ==
    IF params.trialsNumber = Undefined THEN NaN
    ELSE IF params.level = "level2"
    THEN Pts(CeilDiv(params.trialsNumber, 3) * minScore)
    ELSE LET phasesRemaining == Max(1, 3 - phaseIdx)
             trialsLeft == Max(0, params.trialsNumber - s.trials)
             trialsThisPhase == CeilDiv(trialsLeft, phasesRemaining)
             expectedFast == trialsThisPhase \div 2
             estimatedTarget == expectedFast * minScore
             minTargetByTrials == (minTrialsPerPhase * minScore) \div 2
         IN  Pts(Max(Max(minScore, minTargetByTrials), estimatedTarget))

\* Mutant: the target is recomputed at every call, not only when missing.
ensurePhaseTarget_Always(s) ==
    IF params.level = "level1"
    THEN [s EXCEPT !.phaseRequiredScores[s.phaseIndex + 1] =
                        computePhaseTarget(s, s.phaseIndex)]
    ELSE s

\* ensurePhaseTarget(): level 1 computes and stores a missing target.
ensurePhaseTarget(s) ==
    IF /\ params.level = "level1"
       /\ \/ s.phaseRequiredScores[s.phaseIndex + 1] = NaN
          \/ s.phaseRequiredScores[s.phaseIndex + 1] <= 0
    THEN [s EXCEPT !.phaseRequiredScores[s.phaseIndex + 1] =
                        computePhaseTarget(s, s.phaseIndex)]
    ELSE s

\* ------------------------------------------------- scheduling and phases
\* startNewTrial(): arm the ISI timer (its callback is the action IsiFire).
startNewTrial(s) ==
    LET s1 == IF s.pendingStimulusTimeoutId # Null
              THEN [s EXCEPT !.timers = clearTimeout(@, s.pendingStimulusTimeoutId)]
              ELSE s
    IN  [setTimeout(s1, "isi", NA) EXCEPT !.pendingStimulusTimeoutId = s1.nextTimerId]

\* Mutant: the break moves the floor but leaves the score alone.
startPhaseBreak_KeepScore(s) ==
    LET s1 == [s EXCEPT !.phaseIndex = Min(2, s.phaseIndex + 1),
                        !.inBreak = TRUE,
                        !.breakState = "started"]
        s2 == clearTrialTimers(s1)
        s3 == [s2 EXCEPT !.stimulus.visible = FALSE, !.stimulus.exiting = FALSE]
        req == s3.phaseRequiredScores
    IN  IF s3.phaseIndex = 1
        THEN LET s4 == [s3 EXCEPT !.phaseFloorScore = req[1]]
             IN  [s4 EXCEPT !.phaseRequiredScores[2] = computePhaseTarget(s4, 1)]
        ELSE IF s3.phaseIndex = 2
        THEN LET s4 == [s3 EXCEPT !.phaseFloorScore = req[1] + req[2]]
             IN  [s4 EXCEPT !.phaseRequiredScores[3] = computePhaseTarget(s4, 2)]
        ELSE s3

startPhaseBreak(s) ==
    LET s1 == [s EXCEPT !.phaseIndex = Min(2, s.phaseIndex + 1),
                        !.inBreak = TRUE,
                        !.breakState = "started"]
        s2 == clearTrialTimers(s1)
        s3 == [s2 EXCEPT !.stimulus.visible = FALSE, !.stimulus.exiting = FALSE]
        req == s3.phaseRequiredScores
    IN  IF s3.phaseIndex = 1
        THEN LET f == req[1]
                 s4 == [s3 EXCEPT !.phaseFloorScore = f, !.score = f]
             IN  [s4 EXCEPT !.phaseRequiredScores[2] = computePhaseTarget(s4, 1)]
        ELSE IF s3.phaseIndex = 2
        THEN LET f == req[1] + req[2]
                 s4 == [s3 EXCEPT !.phaseFloorScore = f, !.score = f]
             IN  [s4 EXCEPT !.phaseRequiredScores[3] = computePhaseTarget(s4, 2)]
        ELSE s3

\* Mutant: SPACE resumes the game before the break is ready.
resumeFromBreak_NoReadyCheck(s) ==
    IF ~s.inBreak THEN s
    ELSE startNewTrial([s EXCEPT !.inBreak = FALSE, !.breakState = "idle"])

\* Mutant: dismissing the break does not schedule the next stimulus.
resumeFromBreak_NoTrial(s) ==
    IF ~s.inBreak \/ s.breakState # "ready" THEN s
    ELSE [s EXCEPT !.inBreak = FALSE, !.breakState = "idle"]

resumeFromBreak(s) ==
    IF ~s.inBreak \/ s.breakState # "ready" THEN s
    ELSE startNewTrial([s EXCEPT !.inBreak = FALSE, !.breakState = "idle"])

\* endLevel(); options.showContinueButton is off, so the callback runs here.
endLevel(s) ==
    LET s1 == clearTrialTimers([s EXCEPT !.gameState = "done"])
    IN  [s1 EXCEPT !.callbackCalls = @ + 1]

\* Mutant: the phase-end test forgets to add the phase target.
checkForPhaseOrLevelEnd_NoTarget(s) ==
    LET s1 == ensurePhaseTarget(s)
    IN  IF s1.score >= s1.phaseFloorScore
        THEN IF s1.phaseIndex < 2 THEN startPhaseBreak(s1) ELSE endLevel(s1)
        ELSE startNewTrial(s1)

\* Mutant: the level ends when the second phase is complete.
checkForPhaseOrLevelEnd_EndEarly(s) ==
    LET s1 == ensurePhaseTarget(s)
        currentPhaseTarget == s1.phaseRequiredScores[s1.phaseIndex + 1]
    IN  IF s1.score >= s1.phaseFloorScore + currentPhaseTarget
        THEN IF s1.phaseIndex < 1 THEN startPhaseBreak(s1) ELSE endLevel(s1)
        ELSE startNewTrial(s1)

\* Mutant: the phase ends only when the score exceeds the target.
checkForPhaseOrLevelEnd_Strict(s) ==
    LET s1 == ensurePhaseTarget(s)
        currentPhaseTarget == s1.phaseRequiredScores[s1.phaseIndex + 1]
    IN  IF s1.score > s1.phaseFloorScore + currentPhaseTarget
        THEN IF s1.phaseIndex < 2 THEN startPhaseBreak(s1) ELSE endLevel(s1)
        ELSE startNewTrial(s1)

\* _checkForPhaseOrLevelEnd() (level 1: the tail of finishTrial).
checkForPhaseOrLevelEnd(s) ==
    LET s1 == ensurePhaseTarget(s)
        currentPhaseTarget == s1.phaseRequiredScores[s1.phaseIndex + 1]
    IN  IF /\ currentPhaseTarget # NaN       \* x >= NaN is false
           /\ s1.score >= s1.phaseFloorScore + currentPhaseTarget
        THEN IF s1.phaseIndex < 2 THEN startPhaseBreak(s1) ELSE endLevel(s1)
        ELSE startNewTrial(s1)

\* --------------------------------------------------------- finishTrial
Outcome(type, points, rt, include, stamped, correct) ==
    [type |-> type, points |-> points, rt |-> rt, includeInMedian |-> include,
     timestamp |-> stamped, correct |-> correct]

IsErrorType(type) == type \in {"early", "timeout", "error"}

\* The record finishTrial pushes to state.data (the fields the level logs,
\* without the wall-clock time and the screen coordinates).
LogRecord(s, o) ==
    [Phase |-> s.phaseIndex + 1,
     TrialType |-> o.type,
     Trial |-> s.trials,
     RT |-> IF params.level = "level2"
            THEN (IF IsErrorType(o.type) THEN NA ELSE o.rt)
            ELSE (IF o.type = "early" THEN NA ELSE o.rt),
     Error |-> IF params.level = "level2"
               THEN (IF IsErrorType(o.type) THEN 1 ELSE 0)
               ELSE NA,
     Score |-> s.score,
     ScoreChange |-> o.points,
     Difficulty |-> IF params.level = "level2" THEN s.stimulus.difficulty ELSE "NA"]

\* Whether finishTrial pushes outcome.rt to reactionTimes.
AdmitsRT(o) ==
    /\ o.includeInMedian
    /\ o.rt # NA
    /\ params.level = "level2" => o.correct \in {"undefined", "true"}

\* Mutant: the score is not clamped to the phase floor.
applyPoints_NoClamp(s, o) == [s EXCEPT !.score = s.score + o.points]

\* score += outcome.points, clamped to the phase floor.
applyPoints(s, o) ==
    [s EXCEPT !.score = Max(s.score + o.points, s.phaseFloorScore)]

\* The median update: push the RT and recompute over the full history.
admitRT(s, rt) ==
    [s EXCEPT !.reactionTimes = Append(@, rt),
              !.medianRT = computeMedian(Append(s.reactionTimes, rt), s.medianRT)]

\* The log append, for outcomes that carry a timestamp.
pushRecord(s, o) ==
    IF o.timestamp THEN [s EXCEPT !.data = Append(@, LogRecord(s, o))] ELSE s

\* Mutant: the record is appended after the phase check and its break.
finishTrial_LogAfterCheck(s, o) ==
    LET s1 == applyPoints(s, o)
        s2 == IF AdmitsRT(o) THEN admitRT(s1, o.rt) ELSE s1
        s4 == [s2 EXCEPT !.finishCalls = @ + 1, !.lastOutcome = o]
    IN  pushRecord(checkForPhaseOrLevelEnd(s4), o)

finishTrial(s, o) ==
    LET s1 == applyPoints(s, o)
        s2 == IF AdmitsRT(o) THEN admitRT(s1, o.rt) ELSE s1
        s3 == pushRecord(s2, o)
        s4 == [s3 EXCEPT !.finishCalls = @ + 1, !.lastOutcome = o]
    IN  checkForPhaseOrLevelEnd(s4)

\* ------------------------------------------------------------ key presses
isResponseKey(key) ==
    IF params.level = "level2" THEN key \in {"ArrowLeft", "ArrowRight"}
    ELSE key = "ArrowDown"

\* Mutant: an early press costs half the penalty.
EarlyPress_HalfPenalty(s) ==
    finishTrial(clearTrialTimers(s),
                Outcome("early", -(Pts(minScore) \div 2), NA, FALSE, TRUE, "undefined"))

\* The early-press branch: cancel the timers, penalise, schedule again.
EarlyPress(s) ==
    finishTrial(clearTrialTimers(s),
                Outcome("early", -Pts(minScore), NA, FALSE, TRUE, "undefined"))

\* Mutant: a response leaves the per-trial timeout armed.
stopTrialTimeout_Forget(s) == s

\* A response stops the per-trial timeout (level 2 keeps the stale handle).
stopTrialTimeout(s) ==
    IF s.currentTrialTimeoutId # Null
    THEN [s EXCEPT !.timers = clearTimeout(@, s.currentTrialTimeoutId),
                   !.currentTrialTimeoutId =
                       IF params.level = "level1" THEN Null ELSE @]
    ELSE s

\* Mutant: a slow response is always admitted to the median.
slowInclude_Always(rt, trialMaxRT) == TRUE

\* const include = reactionTime <= trialMaxRT
slowInclude(rt, trialMaxRT) == rt <= trialMaxRT

\* Mutant: the reaction time is not clamped to trialMaxRT before scoring.
FastPoints_NoClamp(rt, trialMaxRT) ==
    LET m == Max(1, trialMaxRT)
    IN  Pts(minScore) + (Pts(maxScore - minScore) * (m - rt)) \div m

\* The points of a Fast response, in score units:
\* minScore + (1 - min(rt, trialMaxRT) / max(1, trialMaxRT)) * (maxScore - minScore)
FastPoints(rt, trialMaxRT) ==
    LET clampedRT == Min(rt, trialMaxRT)
        m == Max(1, trialMaxRT)
    IN  Pts(minScore) + (Pts(maxScore - minScore) * (m - clampedRT)) \div m

\* Mutant: the direction of the key is not compared with the stimulus side.
classifyResponse_AnyDirection(s, key, rt) ==
    LET threshold == getEffectiveThreshold(s)
        trialMaxRT == IF s.maxRT # 0 THEN s.maxRT ELSE 2 * s.medianRT
        l2 == params.level = "level2"
    IN  IF ExceedsThreshold(rt, threshold)
        THEN Outcome("slow", IF l2 THEN Pts(minScore) \div 2 ELSE 0,
                     rt, slowInclude(rt, trialMaxRT), TRUE,
                     IF l2 THEN "true" ELSE "undefined")
        ELSE Outcome("fast", FastPoints(rt, trialMaxRT), rt, TRUE, TRUE,
                     IF l2 THEN "true" ELSE "undefined")

\* Mutant: a correct response is Fast until the timeout horizon.
classifyResponse_FastUntilTimeout(s, key, rt) ==
    LET trialMaxRT == IF s.maxRT # 0 THEN s.maxRT ELSE 2 * s.medianRT
        correct == \/ key = "ArrowLeft" /\ s.stimulus.side = "left"
                   \/ key = "ArrowRight" /\ s.stimulus.side = "right"
        l2 == params.level = "level2"
    IN  IF l2 /\ ~correct
        THEN Outcome("error", -(Pts(minScore) \div 2), NA, FALSE, TRUE, "false")
        ELSE IF rt > trialMaxRT
        THEN Outcome("slow", IF l2 THEN Pts(minScore) \div 2 ELSE 0,
                     rt, slowInclude(rt, trialMaxRT), TRUE,
                     IF l2 THEN "true" ELSE "undefined")
        ELSE Outcome("fast", FastPoints(rt, trialMaxRT), rt, TRUE, TRUE,
                     IF l2 THEN "true" ELSE "undefined")

\* "Classify and score": the outcome of a response key pressed rt ms after
\* the onset of the visible stimulus.
classifyResponse(s, key, rt) ==
    LET threshold == getEffectiveThreshold(s)
        trialMaxRT == IF s.maxRT # 0 THEN s.maxRT ELSE 2 * s.medianRT
        correct == \/ key = "ArrowLeft" /\ s.stimulus.side = "left"
                   \/ key = "ArrowRight" /\ s.stimulus.side = "right"
        l2 == params.level = "level2"
    IN  IF l2 /\ ~correct
        THEN Outcome("error", -(Pts(minScore) \div 2), NA, FALSE, TRUE, "false")
        ELSE IF ExceedsThreshold(rt, threshold)
        THEN Outcome("slow", IF l2 THEN Pts(minScore) \div 2 ELSE 0,
                     rt, slowInclude(rt, trialMaxRT), TRUE,
                     IF l2 THEN "true" ELSE "undefined")
        ELSE Outcome("fast", FastPoints(rt, trialMaxRT), rt, TRUE, TRUE,
                     IF l2 THEN "true" ELSE "undefined")

\* params.minRT of the first level-1 version: "RT < minRT => early press".
minRT == 100

\* "Classify and score" in the level-1 version that has params.minRT: a
\* response faster than minRT is an early press, the threshold is
\* max(minRT, medianRT / d), and the Fast points are normalised over
\* [minRT, trialMaxRT] (rounded down to the score unit).
classifyResponseMinRT(s, rt) ==
    LET threshold == getEffectiveThreshold(s)
        trialMaxRT == IF s.maxRT # 0 THEN s.maxRT ELSE 2 * Max(s.medianRT, minRT)
    IN  IF rt < minRT
        THEN Outcome("early", -Pts(minScore), NA, FALSE, FALSE, "undefined")
        ELSE IF rt > minRT /\ ExceedsThreshold(rt, threshold)
        THEN Outcome("slow", 0, rt, rt <= trialMaxRT, TRUE, "undefined")
        ELSE LET clampedRT == Max(minRT, Min(rt, trialMaxRT))
                 m == Max(1, trialMaxRT - minRT)
             IN  Outcome("fast",
                         Pts(minScore)
                           + (Pts(maxScore - minScore) * (m - (clampedRT - minRT))) \div m,
                         rt, TRUE, TRUE, "undefined")

\* The branch for a response key pressed while the stimulus is visible.
Respond(s, key, rt) ==
    LET s1 == stopTrialTimeout(s)
        s2 == [s1 EXCEPT !.stimulus.visible = FALSE, !.stimulus.exiting = TRUE]
    IN  finishTrial(s2, classifyResponse(s2, key, rt))

\* The dev/test shortcut of level 2: 's' ends the level at once.
SkipLevel(s) ==
    LET ts1 == IF s.pendingStimulusTimeoutId # Null
               THEN clearTimeout(s.timers, s.pendingStimulusTimeoutId) ELSE s.timers
        ts2 == IF s.currentTrialTimeoutId # Null
               THEN clearTimeout(ts1, s.currentTrialTimeoutId) ELSE ts1
    IN  endLevel([s EXCEPT !.timers = ts2])

\* Mutant: the key is not tested against the response keys.
handleKeyDown_AnyKey(s, key, rt) ==
    IF s.gameState # "playing" THEN s
    ELSE IF params.level = "level2" /\ key = "s" THEN SkipLevel(s)
    ELSE IF s.inBreak THEN (IF key = " " THEN resumeFromBreak(s) ELSE s)
    ELSE IF ~s.stimulus.visible /\ ~s.stimulus.exiting THEN EarlyPress(s)
    ELSE IF s.stimulus.visible /\ ~s.stimulus.exiting THEN Respond(s, key, rt)
    ELSE s

\* Mutant: gameState is not tested on entry.
handleKeyDown_NoDoneGuard(s, key, rt) ==
    IF params.level = "level2" /\ key = "s" THEN SkipLevel(s)
    ELSE IF s.inBreak THEN (IF key = " " THEN resumeFromBreak(s) ELSE s)
    ELSE IF ~isResponseKey(key) THEN s
    ELSE IF ~s.stimulus.visible /\ ~s.stimulus.exiting THEN EarlyPress(s)
    ELSE IF s.stimulus.visible /\ ~s.stimulus.exiting THEN Respond(s, key, rt)
    ELSE s

handleKeyDown(s, key, rt) ==
    IF s.gameState # "playing" THEN s
    ELSE IF params.level = "level2" /\ key = "s" THEN SkipLevel(s)
    ELSE IF s.inBreak THEN (IF key = " " THEN resumeFromBreak(s) ELSE s)
    ELSE IF ~isResponseKey(key) THEN s
    ELSE IF ~s.stimulus.visible /\ ~s.stimulus.exiting THEN EarlyPress(s)
    ELSE IF s.stimulus.visible /\ ~s.stimulus.exiting THEN Respond(s, key, rt)
    ELSE s

\* ------------------------------------------------------- timer callbacks
\* The stimuli level 2 can draw in a phase: <<side, difficulty>>.
StimulusChoices(ph) ==
    IF params.level = "level1" THEN {<<"NA", "NA">>}
    ELSE IF ph = 0 THEN {"left", "right"} \X {"congruent"}
    ELSE IF ph = 1 THEN {"left", "right"} \X {"congruent", "neutral"}
    ELSE {"left", "right"} \X {"congruent", "incongruent"}

\* Mutant: the stimulus onset keeps the maxRT of the previous trial.
isiCallback_StaleMaxRT(s, choice) ==
    LET s1 == [s EXCEPT !.pendingStimulusTimeoutId = Null,
                        !.stimulus = [visible |-> TRUE, exiting |-> FALSE,
                                      side |-> choice[1], difficulty |-> choice[2]],
                        !.trials = @ + 1]
        s2 == IF s1.currentTrialTimeoutId # Null
              THEN [s1 EXCEPT !.timers = clearTimeout(@, s1.currentTrialTimeoutId)]
              ELSE s1
    IN  [setTimeout(s2, "timeout", s2.maxRT) EXCEPT !.currentTrialTimeoutId = s2.nextTimerId]

\* The callback of the ISI timer: show the stimulus, arm the timeout.
isiCallback(s, choice) ==
    LET s1 == [s EXCEPT !.pendingStimulusTimeoutId = Null,
                        !.stimulus = [visible |-> TRUE, exiting |-> FALSE,
                                      side |-> choice[1], difficulty |-> choice[2]],
                        !.trials = @ + 1,
                        !.maxRT = 2 * s.medianRT]
        s2 == IF s1.currentTrialTimeoutId # Null
              THEN [s1 EXCEPT !.timers = clearTimeout(@, s1.currentTrialTimeoutId)]
              ELSE s1
    IN  [setTimeout(s2, "timeout", s2.maxRT) EXCEPT !.currentTrialTimeoutId = s2.nextTimerId]

\* Mutant: a timeout is penalised like an early press.
timeoutCallback_Penalty(s) ==
    LET s1 == [s EXCEPT !.currentTrialTimeoutId = Null]
    IN  IF s1.gameState # "playing" THEN s1
        ELSE LET s2 == IF s1.stimulus.visible
                       THEN [s1 EXCEPT !.stimulus.visible = FALSE, !.stimulus.exiting = TRUE]
                       ELSE s1
             IN  finishTrial(s2, Outcome("timeout", -Pts(minScore), NA, FALSE,
                                         params.level = "level2", "undefined"))

\* The callback of the response-timeout timer.
timeoutCallback(s) ==
    LET s1 == [s EXCEPT !.currentTrialTimeoutId = Null]
    IN  IF s1.gameState # "playing" THEN s1
        ELSE LET s2 == IF s1.stimulus.visible
                       THEN [s1 EXCEPT !.stimulus.visible = FALSE, !.stimulus.exiting = TRUE]
                       ELSE s1
             IN  finishTrial(s2, Outcome("timeout", 0, NA, FALSE,
                                         params.level = "level2", "undefined"))

\* update(), once per animation frame: the exit animation ends after
\* exitDuration, the break walks started -> effects -> ready with the time
\* elapsed since it began (0: <= 1000 ms, 1: > 1000 ms, 2: > 2000 ms).
update(s, exitOver, elapsed) ==
    LET s1 == IF s.stimulus.exiting /\ exitOver
              THEN [s EXCEPT !.stimulus.exiting = FALSE] ELSE s
        s2 == IF s1.inBreak /\ s1.breakState = "started" /\ elapsed >= 1
              THEN [s1 EXCEPT !.breakState = "effects"] ELSE s1
    IN  IF s2.inBreak /\ s2.breakState = "effects" /\ elapsed >= 2
        THEN [s2 EXCEPT !.breakState = "ready"] ELSE s2

\* ------------------------------------------- the engine's end-of-level summary
\* The endGameCallback of engine.run computes the Inverse Efficiency Score
\* from state.data.  Quotients are kept as fractions <<num, den>>.
\* state.data.filter((d) => d.Error === 0 && d.RT !== "NA")
correctTrials(d) == SelectSeq(d, LAMBDA r : r.Error = 0 /\ r.RT # NA)

\* correctTrials.map((d) => d.RT).reduce((a, b) => a + b, 0)
RECURSIVE SumRT(_)
SumRT(d) == IF d = <<>> THEN 0 ELSE Head(d).RT + SumRT(Tail(d))

meanRT(d) ==
    LET c == correctTrials(d)
    IN  IF Len(c) # 0 THEN <<SumRT(c), Len(c)>> ELSE <<0, 1>>

errorRate(d) ==
    IF Len(d) > 0
    THEN <<Len(SelectSeq(d, LAMBDA r : r.Error = 1)), Len(d)>>
    ELSE <<0, 1>>

\* Mutant: the division is not skipped when errorRate = 1.
ies_NoGuard(d) ==
    LET m == meanRT(d)
        e == errorRate(d)
    IN  <<m[1] * e[2], m[2] * (e[2] - e[1])>>

\* errorRate < 1 ? meanRT / (1 - errorRate) : meanRT
ies(d) ==
    LET m == meanRT(d)
        e == errorRate(d)
    IN  IF e[1] < e[2] THEN <<m[1] * e[2], m[2] * (e[2] - e[1])>> ELSE m

\* ------------------------------------------------------------------ Init
\* The state start() leaves behind: reset, then the first startNewTrial().
NoOutcome == Outcome("none", 0, NA, FALSE, FALSE, "undefined")

StartState ==
    LET s0 == [gameState |-> "playing", score |-> 0, trials |-> 0,
               reactionTimes |-> <<>>, medianRT |-> InitialMedianRT,
               maxRT |-> InitialMaxRT, phaseIndex |-> 0, inBreak |-> FALSE,
               breakState |-> "idle", phaseRequiredScores |-> <<0, 0, 0>>,
               phaseFloorScore |-> 0,
               stimulus |-> [visible |-> FALSE, exiting |-> FALSE,
                             side |-> "NA", difficulty |-> "NA"],
               pendingStimulusTimeoutId |-> Null, currentTrialTimeoutId |-> Null,
               timers |-> {}, data |-> <<>>, finishCalls |-> 0,
               lastOutcome |-> NoOutcome, callbackCalls |-> 0,
               nextTimerId |-> 1]
        t == computePhaseTarget(s0, 0)
        s1 == [s0 EXCEPT !.phaseRequiredScores =
                   IF params.level = "level2" THEN <<t, t, t>> ELSE <<t, 0, 0>>]
    IN  startNewTrial(s1)

StartVars ==
    /\ gameState = StartState.gameState
    /\ score = StartState.score
    /\ trials = StartState.trials
    /\ reactionTimes = StartState.reactionTimes
    /\ medianRT = StartState.medianRT
    /\ maxRT = StartState.maxRT
    /\ phaseIndex = StartState.phaseIndex
    /\ inBreak = StartState.inBreak
    /\ breakState = StartState.breakState
    /\ phaseRequiredScores = StartState.phaseRequiredScores
    /\ phaseFloorScore = StartState.phaseFloorScore
    /\ stimulus = StartState.stimulus
    /\ pendingStimulusTimeoutId = StartState.pendingStimulusTimeoutId
    /\ currentTrialTimeoutId = StartState.currentTrialTimeoutId
    /\ timers = StartState.timers
    /\ data = StartState.data
    /\ finishCalls = StartState.finishCalls
    /\ lastOutcome = StartState.lastOutcome
    /\ callbackCalls = StartState.callbackCalls
    /\ nextTimerId = StartState.nextTimerId

Init == params \in Configs /\ StartVars

\* --------------------------------------------------------------- actions
\* An armed ISI timer fires.
IsiFire ==
    \E t \in timers, choice \in StimulusChoices(phaseIndex) :
        /\ t.kind = "isi"
        /\ Commit(isiCallback([St EXCEPT !.timers = @ \ {t}], choice))

\* An armed response-timeout timer fires.
TimeoutFire ==
    \E t \in timers :
        /\ t.kind = "timeout"
        /\ finishCalls < MaxFinish
        /\ Commit(timeoutCallback([St EXCEPT !.timers = @ \ {t}]))

\* A keydown event reaches handleKeyDown; rt = now() - startTime is read
\* only when a stimulus is on screen.
KeyDown ==
    \E key \in Keys :
        \E rt \in (IF stimulus.visible /\ ~stimulus.exiting THEN RTs ELSE {NA}) :
            LET n == handleKeyDown(St, key, rt)
            IN  /\ callbackCalls = 0
                /\ n.finishCalls <= MaxFinish
                /\ Commit(n)

\* An animation frame runs update() (the engine stops the loop at level end).
Update ==
    \E exitOver \in BOOLEAN, elapsed \in 0..2 :
        LET n == update(St, exitOver, elapsed)
        IN  /\ callbackCalls = 0
            /\ n # St
            /\ Commit(n)

Next == IsiFire \/ TimeoutFire \/ KeyDown \/ Update

Spec == Init /\ [][Next]_vars

\* ------------------------------------------- the median as a pure function
\* Reaction times fed to the median update, and how many of them.
FeedRTs == {100, 500, 700}
MaxFeed == 4

\* One admission, as finishTrial performs it.
Admit ==
    \E rt \in FeedRTs :
        /\ Len(reactionTimes) < MaxFeed
        /\ Commit(admitRT(St, rt))

MedianNext == Admit

MedianSpec == Init /\ [][MedianNext]_vars

\* ----------------------------------------- the threshold as a pure function
\* Values of params.gameDifficulty, as dNum/dDen: negative, zero (or
\* missing) and positive ones, among them pairs d and 2d.
ThresholdConfigs ==
    {[Level1Params EXCEPT !.dNum = n, !.dDen = d] : n \in {-1, 0, 1, 2, 3}, d \in {1, 4}}

ThresholdInit == params \in ThresholdConfigs /\ StartVars

\* The median moves by admissions; the threshold follows it.
ThresholdSpec == ThresholdInit /\ [][MedianNext]_vars

\* ------------------------------------- classification as a pure function
\* The first level-1 version, the one with params.minRT.
LegacyLevel1Params ==
    [level |-> "level1_minRT", trialsNumber |-> 12, dNum |-> 3, dDen |-> 4]

ScoreConfigs == Configs \cup {LegacyLevel1Params}
\* Running medians at stimulus onset, and reaction times of the response.
ScoreMedians == {500, 1000, 1500}
ScoreRTs == {0, 100, 200, 1000, 1500, 2000, 2500, 3000}

\* A stimulus is on screen: the level has started, the median is some
\* admitted value (or the seed) and maxRT was set to twice it at onset.
ScoreInit ==
    /\ params \in ScoreConfigs
    /\ medianRT \in ScoreMedians
    /\ maxRT = 2 * medianRT
    /\ reactionTimes = IF medianRT = InitialMedianRT THEN <<>> ELSE <<medianRT>>
    /\ stimulus \in [visible : {TRUE}, exiting : {FALSE},
                     side : IF params.level = "level2" THEN {"left", "right"} ELSE {"NA"},
                     difficulty : IF params.level = "level2" THEN {"congruent"} ELSE {"NA"}]
    /\ gameState = "playing"
    /\ score = 0
    /\ trials = 1
    /\ phaseIndex = 0
    /\ inBreak = FALSE
    /\ breakState = "idle"
    /\ phaseRequiredScores = <<0, 0, 0>>
    /\ phaseFloorScore = 0
    /\ pendingStimulusTimeoutId = Null
    /\ currentTrialTimeoutId = Null
    /\ timers = {}
    /\ data = <<>>
    /\ finishCalls = 0
    /\ lastOutcome = NoOutcome
    /\ callbackCalls = 0
    /\ nextTimerId = 1

\* The outcome the level in play computes for a response.
scoreResponse(s, key, rt) ==
    IF params.level = "level1_minRT" THEN classifyResponseMinRT(s, rt)
    ELSE classifyResponse(s, key, rt)

\* A response is classified and scored (the outcome is all that is kept).
Classify ==
    \E key \in {k \in Keys : isResponseKey(k)}, rt \in ScoreRTs :
        /\ lastOutcome = NoOutcome
        /\ Commit([St EXCEPT !.lastOutcome = scoreResponse(St, key, rt)])

ScoreNext == Classify

ScoreSpec == ScoreInit /\ [][ScoreNext]_vars

\* ------------------------------------------------ the jsPsych integration
\* createGameTrial({trialsNumber, ...}): the option has no default and is
\* handed to the engine as options.levelParams = {trialsNumber}.
TrialsNumberOptions == {Undefined, 3}
createGameTrial(trialsNumber) == [trialsNumber |-> trialsNumber]
\* Object.assign(level.params, levelParams) copies every own property of
\* levelParams, a property whose value is undefined included.
ObjectAssign(levelDefaults, levelParams) ==
    [levelDefaults EXCEPT !.trialsNumber = levelParams.trialsNumber]
JsPsychConfigs ==
    { ObjectAssign(defaults, createGameTrial(option)) :
        defaults \in {Level1Params, Level2Params}, option \in TrialsNumberOptions }

JsPsychInit == params \in JsPsychConfigs /\ StartVars

JsPsychSpec == JsPsychInit /\ [][Next]_vars

\* ------------------------------------------------- the attentive player
\* Runs of the level in which every stimulus is answered with a correct
\* Fast response and every break is dismissed with SPACE once it is ready.
PlayConfigs ==
    { [Level2Params EXCEPT !.trialsNumber = 3],
      [Level2Params EXCEPT !.trialsNumber = 5],
      [Level2Params EXCEPT !.trialsNumber = 3, !.dNum = 2],
      [Level1Params EXCEPT !.trialsNumber = 10],
      [Level1Params EXCEPT !.trialsNumber = 22] }

\* now() - startTime of the player's responses.
PlayRTs == {0, 500, 1000}

PlayInit == params \in PlayConfigs /\ StartVars

\* The player answers the visible stimulus with a correct Fast response.
Answer ==
    \E key \in Keys, rt \in PlayRTs :
        /\ gameState = "playing" /\ ~inBreak
        /\ stimulus.visible /\ ~stimulus.exiting
        /\ isResponseKey(key)
        /\ classifyResponse(St, key, rt).type = "fast"
        /\ Commit(handleKeyDown(St, key, rt))

\* The player dismisses a break that has become ready.
Dismiss ==
    /\ gameState = "playing" /\ inBreak /\ breakState = "ready"
    /\ Commit(handleKeyDown(St, " ", NA))

PlayNext == IsiFire \/ Answer \/ Dismiss \/ Update

PlaySpec == PlayInit /\ [][PlayNext]_vars

\* ================================================================ claims
ResponseKeys == {key \in Keys : isResponseKey(key)}
IsiTimers == {t \in timers : t.kind = "isi"}
TimeoutTimers == {t \in timers : t.kind = "timeout"}
FinishStep == finishCalls' = finishCalls + 1
\* The post-clamp score of the finishTrial call a step performs.
PostClampScore == Max(score + lastOutcome'.points, phaseFloorScore)
LastRecord == data[Len(data)]

\* C1: after every finishTrial step, whatever the outcome, score >=
\* phaseFloorScore; an Early or Error penalty applied while score is at the
\* floor leaves score equal to the floor.
C1_ScoreFloor ==
    /\ [](score >= phaseFloorScore)
    /\ [][(FinishStep /\ lastOutcome'.type \in {"early", "error"}
                      /\ score = phaseFloorScore)
            => score' = phaseFloorScore']_vars

\* A penalty has just been absorbed by the floor of a later phase.
C1_Witness ==
    /\ finishCalls > 0
    /\ lastOutcome.type \in {"early", "error"}
    /\ lastOutcome.points < 0
    /\ phaseFloorScore > 0
    /\ score = phaseFloorScore
    /\ LastRecord.Score = phaseFloorScore

\* C2: phaseIndex stays in {0,1,2}, never decreases, and changes only by
\* exactly +1, in a finishTrial step whose post-clamp score has reached
\* phaseFloorScore + phaseRequiredScores[phaseIndex].
C2_PhaseStep ==
    /\ [](phaseIndex \in 0..2)
    /\ [][/\ phaseIndex' >= phaseIndex
          /\ phaseIndex' # phaseIndex =>
                /\ phaseIndex' = phaseIndex + 1
                /\ FinishStep
                /\ PostClampScore >= phaseFloorScore + phaseRequiredScores[phaseIndex + 1]]_vars

\* The second break has begun: the phase advanced twice, one step at a time.
C2_Witness == phaseIndex = 2 /\ inBreak /\ finishCalls = 2

\* A step in which the level ends.
LevelEnds == gameState = "playing" /\ gameState' = "done"
\* A finishTrial step of the final phase that reaches its target.
FinalTargetReached ==
    /\ FinishStep
    /\ phaseIndex = 2
    /\ ~inBreak
    /\ PostClampScore >= phaseFloorScore + phaseRequiredScores[3]
\* The 's' shortcut of the directional level is pressed.
SkipStep == params.level = "level2" /\ Commit(SkipLevel(St))

\* C3 as stated: the level ends only from a finishTrial step with
\* phaseIndex = 2 in which score has reached the final target; never from
\* phase 0, phase 1 or inside a break.
C3_Original == [][LevelEnds => FinalTargetReached]_vars

\* C3 amended: the level ends only from such a finishTrial step, or, in the
\* directional level, from the 's' skip key, which ends it from any phase
\* and from inside a break; the callback then runs exactly once.
C3_LevelEnd ==
    [][LevelEnds => /\ FinalTargetReached \/ SkipStep
                    /\ callbackCalls' = callbackCalls + 1]_vars

\* The level has ended through three completed phases.
C3_Witness ==
    /\ gameState = "done"
    /\ finishCalls = 3
    /\ phaseIndex = 2
    /\ lastOutcome.type = "fast"
    /\ callbackCalls = 1

\* A step after which pending callbacks must be dead: a response to the
\* visible stimulus is accepted, a break starts, or the level ends.
CancellationPoint ==
    \/ FinishStep /\ lastOutcome'.type \in {"fast", "slow", "error"}
    \/ ~inBreak /\ inBreak'
    \/ LevelEnds

\* C4: no ISI or timeout callback armed before a cancellation point is
\* still armed after it (so none can run), and no timer at all is armed
\* during a break or once the level has ended.
C4_NoStaleTimers ==
    /\ []((inBreak \/ gameState = "done") => timers = {})
    /\ [][CancellationPoint => timers' \cap timers = {}]_vars

\* A response was accepted and play goes on: only the new ISI timer is armed.
C4_Witness ==
    /\ lastOutcome.type \in {"fast", "slow", "error"}
    /\ gameState = "playing"
    /\ ~inBreak
    /\ ~stimulus.visible
    /\ Cardinality(timers) = 1
    /\ \A t \in timers : t.kind = "isi" /\ t.id = pendingStimulusTimeoutId

\* C5: at most one ISI timer and at most one timeout timer are armed, never
\* both together, and no ISI timer is armed while a stimulus is visible.
C5_OneOutstanding ==
    /\ Cardinality(IsiTimers) <= 1
    /\ Cardinality(TimeoutTimers) <= 1
    /\ IsiTimers = {} \/ TimeoutTimers = {}
    /\ stimulus.visible => IsiTimers = {}

\* A later stimulus is on screen with exactly its own timeout armed.
C5_Witness ==
    /\ stimulus.visible
    /\ trials >= 2
    /\ finishCalls >= 1
    /\ Cardinality(timers) = 1
    /\ \A t \in timers : t.kind = "timeout" /\ t.id = currentTrialTimeoutId

\* A step that appends to reactionTimes.
Admission == reactionTimes' # reactionTimes

\* C6: an RT is appended to reactionTimes (and medianRT recomputed) only if
\* it came from a Fast or Slow response and 0 <= rt <= maxRT for the maxRT
\* in force at the time of the response.
C6_AdmittedWithinMaxRT ==
    [][Admission =>
         /\ FinishStep
         /\ lastOutcome'.type \in {"fast", "slow"}
         /\ reactionTimes' = Append(reactionTimes, lastOutcome'.rt)
         /\ 0 <= lastOutcome'.rt
         /\ lastOutcome'.rt <= maxRT]_vars

\* The k-th smallest element of a non-empty sequence, by counting.
KthSmallest(a, k) ==
    CHOOSE v \in {a[i] : i \in 1..Len(a)} :
        /\ Cardinality({i \in 1..Len(a) : a[i] < v}) < k
        /\ Cardinality({i \in 1..Len(a) : a[i] <= v}) >= k
\* Twice the textbook median: the middle value counted twice, or the sum of
\* the two middle values.
TextbookMedianTimes2(a) ==
    IF Len(a) % 2 = 1
    THEN 2 * KthSmallest(a, (Len(a) + 1) \div 2)
    ELSE KthSmallest(a, Len(a) \div 2) + KthSmallest(a, Len(a) \div 2 + 1)

\* C7: after each admission medianRT is the textbook median of all RTs
\* admitted so far; 500, 100, 700 in that order give 500, 300, 500; before
\* the first admission medianRT is the seed.
C7_Median ==
    /\ reactionTimes = <<>> => medianRT = InitialMedianRT
    /\ reactionTimes # <<>> => 2 * medianRT = TextbookMedianTimes2(reactionTimes)
    /\ reactionTimes = <<500>> => medianRT = 500
    /\ reactionTimes = <<500, 100>> => medianRT = 300
    /\ reactionTimes = <<500, 100, 700>> => medianRT = 500

\* 500, 100, 700 have been admitted in that order.
C7_Witness == reactionTimes = <<500, 100, 700>> /\ medianRT = 500

\* C8: every finished trial outcome appends exactly one record, so the
\* number of log records equals the number of finishTrial calls.
C8_OneRecordPerOutcome == Len(data) = finishCalls

\* A step in which the response timeout fires and finishes the trial.
TimeoutStep == FinishStep /\ lastOutcome'.type = "timeout"

\* C9: a Timeout outcome carries 0 points and leaves score, reactionTimes
\* and medianRT unchanged.
C9_TimeoutFrame ==
    [][TimeoutStep =>
         /\ lastOutcome'.points = 0
         /\ ~lastOutcome'.includeInMedian
         /\ score' = score
         /\ reactionTimes' = reactionTimes
         /\ medianRT' = medianRT]_vars

\* A timeout has just finished a trial while the score was above the floor.
C9_Witness ==
    /\ lastOutcome.type = "timeout"
    /\ finishCalls >= 2
    /\ score > phaseFloorScore
    /\ ~stimulus.visible

\* What a response-key press does to the state it finds: classified Early,
\* score lowered by minScore but not below the floor, reactionTimes,
\* medianRT and trials untouched, every timer that was armed cancelled and
\* exactly one new ISI timer armed.
PressIsEarly(key) ==
    LET n == handleKeyDown(St, key, NA)
    IN  /\ n.finishCalls = finishCalls + 1
        /\ n.lastOutcome.type = "early"
        /\ n.score = Max(score - Pts(minScore), phaseFloorScore)
        /\ n.reactionTimes = reactionTimes
        /\ n.medianRT = medianRT
        /\ n.trials = trials
        /\ n.timers \cap timers = {}
        /\ Cardinality(n.timers) = 1
        /\ \A t \in n.timers : t.kind = "isi"

CorrectKey(key) ==
    params.level = "level2" =>
        \/ key = "ArrowLeft" /\ stimulus.side = "left"
        \/ key = "ArrowRight" /\ stimulus.side = "right"
WithinThreshold(rt) == ~ExceedsThreshold(rt, getEffectiveThreshold(St))

\* points = minScore + (1 - min(rt, maxRT)/maxRT) * (maxScore - minScore),
\* multiplied through by maxRT; within [minScore, maxScore]; maxScore at
\* rt = 0; 190 for rt 200 and maxRT 2000.
FastAsClaimed(key, rt) ==
    LET o == scoreResponse(St, key, rt)
    IN  /\ o.type = "fast"
        /\ o.points * maxRT = Pts(minScore) * maxRT
                                + (maxRT - Min(rt, maxRT)) * Pts(maxScore - minScore)
        /\ o.points >= Pts(minScore)
        /\ o.points <= Pts(maxScore)
        /\ rt = 0 => o.points = Pts(maxScore)
        /\ (rt = 200 /\ maxRT = 2000) => o.points = Pts(190)

\* The level-1 version with minRT: below minRT the press is Early; from
\* minRT on it is Fast with the RT normalised over [minRT, maxRT].
FastOverMinRT(rt) ==
    LET o == scoreResponse(St, "ArrowDown", rt)
        span == maxRT - minRT
        num == Pts(minScore) * span
                 + (span - (Max(minRT, Min(rt, maxRT)) - minRT)) * Pts(maxScore - minScore)
    IN  IF rt < minRT
        THEN o.type = "early" /\ o.points = -Pts(minScore)
        ELSE /\ o.type = "fast"
             /\ o.points * span <= num
             /\ num < (o.points + 1) * span
             /\ o.points >= Pts(minScore)
             /\ o.points <= Pts(maxScore)
             /\ rt = minRT => o.points = Pts(maxScore)

\* C11 as stated: in every level a correct response with rt <= threshold is
\* Fast and earns minScore + (1 - min(rt, maxRT)/maxRT)(maxScore - minScore),
\* within [minScore, maxScore], maxScore at rt = 0, 190 in the example.
C11_Original ==
    \A key \in ResponseKeys, rt \in ScoreRTs :
        (stimulus.visible /\ CorrectKey(key) /\ WithinThreshold(rt))
            => FastAsClaimed(key, rt)

\* C11 amended: that holds in the levels without params.minRT (the
\* directional level and the current level 1); in the level-1 version with
\* minRT = 100 such a response is Early when rt < minRT and otherwise Fast
\* with points minScore + (1 - (clamp(rt) - minRT)/(maxRT - minRT)) *
\* (maxScore - minScore), rt clamped to [minRT, maxRT]: within
\* [minScore, maxScore] and equal to maxScore at rt = minRT.
C11_FastPoints ==
    \A key \in ResponseKeys, rt \in ScoreRTs :
        (stimulus.visible /\ CorrectKey(key) /\ WithinThreshold(rt))
            => IF params.level = "level1_minRT"
               THEN FastOverMinRT(rt)
               ELSE FastAsClaimed(key, rt)

\* The worked example: rt 200 with maxRT 2000 has earned 190 points.
C11_Witness ==
    /\ params.level # "level1_minRT"
    /\ lastOutcome.type = "fast"
    /\ lastOutcome.rt = 200
    /\ maxRT = 2000
    /\ lastOutcome.points = Pts(190)

\* A stimulus is on screen and awaits its response.
AwaitingResponse ==
    gameState = "playing" /\ ~inBreak /\ stimulus.visible /\ ~stimulus.exiting

\* C12: a correct response with rt > threshold is Slow; it earns 0 points
\* in the baseline level and minScore/2 in the directional level, and its
\* rt is admitted to the median exactly when rt <= maxRT (medianRT 1000,
\* gameDifficulty 0.75: rt 1500 is Slow, earns 0 and is admitted).
C12_Slow ==
    \A key \in ResponseKeys, rt \in RTs :
        (AwaitingResponse /\ CorrectKey(key) /\ ~WithinThreshold(rt)) =>
            LET n == handleKeyDown(St, key, rt)
            IN  /\ n.finishCalls = finishCalls + 1
                /\ n.lastOutcome.type = "slow"
                /\ n.lastOutcome.points =
                       IF params.level = "level2" THEN Pts(minScore) \div 2 ELSE 0
                /\ rt <= maxRT =>
                       /\ n.reactionTimes = Append(reactionTimes, rt)
                       /\ n.medianRT = computeMedian(n.reactionTimes, medianRT)
                /\ rt > maxRT =>
                       /\ n.reactionTimes = reactionTimes
                       /\ n.medianRT = medianRT
                /\ (params = Level1Params /\ medianRT = 1000 /\ rt = 1500) =>
                       /\ n.lastOutcome.points = 0
                       /\ n.reactionTimes = Append(reactionTimes, 1500)

\* The worked example has happened: the first response of the baseline
\* level came at 1500 ms, was Slow, earned nothing and entered the median.
C12_Witness ==
    /\ params = Level1Params
    /\ finishCalls = 1
    /\ lastOutcome.type = "slow"
    /\ lastOutcome.rt = 1500
    /\ lastOutcome.points = 0
    /\ score = 0
    /\ reactionTimes = <<1500>>
    /\ medianRT = 1500

\* C13: in the directional level a left/right key that does not match the
\* side of the visible stimulus is an Error whatever its rt: -minScore/2
\* points, score clamped at the phase floor, reactionTimes and medianRT
\* unchanged.
C13_Error ==
    \A key \in ResponseKeys, rt \in RTs :
        (AwaitingResponse /\ params.level = "level2" /\ ~CorrectKey(key)) =>
            LET n == handleKeyDown(St, key, rt)
            IN  /\ n.finishCalls = finishCalls + 1
                /\ n.lastOutcome.type = "error"
                /\ n.lastOutcome.points = -(Pts(minScore) \div 2)
                /\ n.score = Max(score - Pts(minScore) \div 2, phaseFloorScore)
                /\ n.reactionTimes = reactionTimes
                /\ n.medianRT = medianRT
                /\ ~n.inBreak

\* A wrong-direction press above the floor has just cost minScore/2.
C13_Witness ==
    /\ params.level = "level2"
    /\ Len(data) >= 2
    /\ lastOutcome.type = "error"
    /\ LastRecord.TrialType = "error"
    /\ LastRecord.Score = data[Len(data) - 1].Score - Pts(minScore) \div 2
    /\ score = LastRecord.Score

\* C14: effectiveThreshold = medianRT / gameDifficulty when gameDifficulty
\* > 0 and = medianRT when gameDifficulty is <= 0 or missing; for a fixed
\* medianRT, doubling a positive gameDifficulty halves the threshold.
C14_Threshold ==
    LET thr == getEffectiveThreshold(St)
        doubled == thresholdFor(medianRT, 2 * params.dNum, params.dDen)
    IN  /\ thr[2] > 0
        /\ params.dNum > 0 => thr[1] * params.dNum = medianRT * params.dDen * thr[2]
        /\ params.dNum <= 0 => thr[1] = medianRT * thr[2]
        /\ params.dNum > 0 => 2 * doubled[1] * thr[2] = thr[1] * doubled[2]

\* The guard has applied to a median that admissions have moved.
C14_Witness ==
    /\ params.dNum <= 0
    /\ reactionTimes = <<100, 500>>
    /\ medianRT = 300
    /\ getEffectiveThreshold(St) = <<300, 1>>

\* The reaction time a press would measure in the current state.
PressRTs == IF stimulus.visible /\ ~stimulus.exiting THEN RTs ELSE {NA}
\* The key is not an input the current state recognises.
Unrecognised(key) ==
    /\ gameState = "playing"
    /\ IF inBreak THEN key # " " ELSE ~isResponseKey(key)
\* The dev/test skip key of the directional level.
IsSkipKey(key) == params.level = "level2" /\ key = "s"

\* C15 as stated: a press of a key that is not recognised in the current
\* state (not a response key while playing, not SPACE during a break)
\* changes nothing.
C15_Original ==
    \A key \in Keys, rt \in PressRTs :
        Unrecognised(key) => handleKeyDown(St, key, rt) = St

\* C15 amended: such a press changes nothing, except that in the
\* directional level the 's' skip key ends the level at once (gameState
\* 'done', every timer disarmed, the callback run) and leaves score,
\* phaseIndex, trials, reactionTimes and the log as they were.
C15_IgnoredKeys ==
    \A key \in Keys, rt \in PressRTs :
        Unrecognised(key) =>
            LET n == handleKeyDown(St, key, rt)
            IN  IF IsSkipKey(key)
                THEN /\ n.gameState = "done"
                     /\ n.timers = {}
                     /\ n.callbackCalls = callbackCalls + 1
                     /\ n.score = score
                     /\ n.phaseIndex = phaseIndex
                     /\ n.trials = trials
                     /\ n.reactionTimes = reactionTimes
                     /\ n.data = data
                ELSE n = St

\* A stimulus of a later trial is on screen with its timeout armed, and
\* neither SPACE nor another stray key touches the state.
C15_Witness ==
    /\ AwaitingResponse
    /\ finishCalls >= 1
    /\ score > 0
    /\ TimeoutTimers # {}
    /\ handleKeyDown(St, "x", 500) = St
    /\ handleKeyDown(St, " ", 500) = St

\* C16: once gameState is 'done' no key press changes anything, no timer
\* is left that could run a callback or show a stimulus, and score,
\* phaseIndex, trials, reactionTimes, medianRT, the log and gameState stay
\* as they are.
C16_DoneIsTerminal ==
    /\ [](gameState = "done" =>
            /\ timers = {}
            /\ \A key \in Keys, rt \in RTs \cup {NA} : handleKeyDown(St, key, rt) = St)
    /\ [][gameState = "done" =>
            /\ gameState' = "done"
            /\ UNCHANGED <<score, phaseIndex, trials, reactionTimes, medianRT,
                           data, stimulus, timers>>]_vars

\* The level has ended after scored trials, with nothing armed.
C16_Witness ==
    /\ gameState = "done"
    /\ callbackCalls = 1
    /\ score > 0
    /\ reactionTimes # <<>>
    /\ Len(data) = finishCalls
    /\ timers = {}

\* C17: during a break no timer is armed and no stimulus is visible;
\* response keys, and SPACE before the break is 'ready', change nothing;
\* SPACE at 'ready' ends the break and schedules exactly one trial; and
\* the break ends in no other way.
C17_Break ==
    /\ [](inBreak =>
            /\ timers = {}
            /\ ~stimulus.visible
            /\ gameState = "playing" =>
                 /\ \A key \in ResponseKeys : handleKeyDown(St, key, NA) = St
                 /\ breakState # "ready" => handleKeyDown(St, " ", NA) = St
                 /\ breakState = "ready" =>
                      LET n == handleKeyDown(St, " ", NA)
                      IN  /\ ~n.inBreak
                          /\ Cardinality(n.timers) = 1
                          /\ \A t \in n.timers : t.kind = "isi"
                          /\ ~n.stimulus.visible
                          /\ n.finishCalls = finishCalls
                          /\ n.score = score
                          /\ n.trials = trials)
    /\ [][(inBreak /\ ~inBreak') =>
            /\ breakState = "ready"
            /\ Commit(handleKeyDown(St, " ", NA))]_vars

\* The game has just resumed from a break: one ISI timer is armed and no
\* trial of the new phase has finished yet.
C17_Witness ==
    /\ gameState = "playing"
    /\ ~inBreak
    /\ phaseIndex >= 1
    /\ breakState = "idle"
    /\ Cardinality(timers) = 1
    /\ IsiTimers = timers
    /\ score = phaseFloorScore
    /\ data # <<>>
    /\ LastRecord.Phase = phaseIndex
    /\ finishCalls = Len(data)

\* C18: a phase target that has been set to a positive value never changes
\* afterwards, whatever trials becomes; in the fixed variant all three
\* targets are ceil(trialsNumber/3) * minScore from the start.
C18_TargetsFrozen ==
    /\ [][\A i \in 1..3 :
            phaseRequiredScores[i] > 0 => phaseRequiredScores'[i] = phaseRequiredScores[i]]_vars
    /\ [](params.level = "level2" =>
            \A i \in 1..3 :
                phaseRequiredScores[i] = Pts(((params.trialsNumber + 2) \div 3) * minScore))

\* An adaptive target was fixed when few trials had been shown and is kept
\* although computing it again now would give another value.
C18_Witness ==
    /\ params.level = "level1"
    /\ trials >= 2
    /\ finishCalls >= 2
    /\ phaseRequiredScores[phaseIndex + 1] > 0
    /\ phaseRequiredScores[phaseIndex + 1] # computePhaseTarget(St, phaseIndex)

\* The log records counted by position.
ErrorRecords == {i \in 1..Len(data) : data[i].Error = 1}
CorrectRecords == {i \in 1..Len(data) : data[i].Error = 0 /\ data[i].RT # NA}
RECURSIVE SumOfRTs(_)
SumOfRTs(I) ==
    IF I = {} THEN 0
    ELSE LET i == CHOOSE j \in I : TRUE IN data[i].RT + SumOfRTs(I \ {i})

\* C19: when the level hands its state to the engine, errorRate is the
\* share of records with Error = 1, meanRT the mean RT of the records with
\* Error = 0 and a numeric RT (0 when there is none), and IES is
\* meanRT / (1 - errorRate), or meanRT when errorRate = 1.
C19_Summary ==
    (gameState = "done" /\ params.level = "level2") =>
        LET N == Len(data)
            nErr == Cardinality(ErrorRecords)
            nOk == Cardinality(CorrectRecords)
            e == errorRate(data)
            m == meanRT(data)
            x == ies(data)
        IN  /\ e[2] > 0 /\ m[2] > 0 /\ x[2] > 0
            /\ N > 0 => e[1] * N = nErr * e[2]
            /\ nOk > 0 => m[1] * nOk = SumOfRTs(CorrectRecords) * m[2]
            /\ nOk = 0 => m[1] = 0
            /\ nErr < N => x[1] * m[2] * (N - nErr) = m[1] * N * x[2]
            /\ (N > 0 /\ nErr = N) => x[1] * m[2] = m[1] * x[2]

\* The level ended with a mixed log: errors and timed correct responses.
C19_Witness ==
    /\ gameState = "done"
    /\ params.level = "level2"
    /\ Len(data) = 3
    /\ Cardinality(ErrorRecords) = 1
    /\ Cardinality(CorrectRecords) = 2
    /\ meanRT(data)[1] > 0
    /\ ies(data)[1] * 2 * meanRT(data)[2] = 3 * meanRT(data)[1] * ies(data)[2]

\* A step in which a phase break begins.
BreakBegins == ~inBreak /\ inBreak'
\* The sum of the targets of the phases before phase ph.
CompletedTargets(req, ph) ==
    IF ph = 0 THEN 0 ELSE IF ph = 1 THEN req[1] ELSE req[1] + req[2]

\* C20 as stated: when a break begins, score = phaseFloorScore = the sum of
\* the targets of the completed phases, and score is not lower than it was
\* immediately before the break began (after the outcome's points).
C20_Original ==
    [][BreakBegins =>
         /\ score' = phaseFloorScore'
         /\ phaseFloorScore' = CompletedTargets(phaseRequiredScores', phaseIndex')
         /\ score' >= PostClampScore]_vars

\* C20 amended: when a break begins, score is set to the new floor, the sum
\* of the targets of the completed phases; points earned beyond the target
\* are dropped, so score is never above, and can be below, the score the
\* outcome had produced, but it is above the score before that outcome.
C20_BreakScore ==
    [][BreakBegins =>
         /\ FinishStep
         /\ score' = phaseFloorScore'
         /\ phaseFloorScore' = CompletedTargets(phaseRequiredScores', phaseIndex')
         /\ phaseFloorScore' = phaseFloorScore + phaseRequiredScores[phaseIndex + 1]
         /\ score' <= PostClampScore
         /\ score' > score]_vars

\* A break has just begun and the log shows the points it dropped.
C20_Witness ==
    /\ inBreak
    /\ breakState = "started"
    /\ phaseIndex >= 1
    /\ score = phaseFloorScore
    /\ data # <<>>
    /\ LastRecord.Score > score

\* The response timeout is armed for exactly the current maxRT.
ArmedForMaxRT ==
    /\ Cardinality(TimeoutTimers) = 1
    /\ \A t \in TimeoutTimers : t.delay = maxRT /\ t.id = currentTrialTimeoutId

\* C21: the threshold and the maxRT a response is classified with are the
\* ones fixed at stimulus onset: while a stimulus awaits its response
\* maxRT = 2 * medianRT and the timeout timer is armed for exactly that
\* maxRT, and from onset to the response or the timeout neither medianRT
\* nor maxRT changes.
C21_OnsetValues ==
    [][/\ AwaitingResponse' => maxRT' = 2 * medianRT' /\ ArmedForMaxRT'
       /\ (stimulus.visible /\ stimulus'.visible)
             => medianRT' = medianRT /\ maxRT' = maxRT
       /\ (stimulus.visible /\ FinishStep)
             => maxRT = 2 * medianRT /\ ArmedForMaxRT]_vars

\* A stimulus shown after the median has adapted awaits its response.
C21_Witness ==
    /\ AwaitingResponse
    /\ medianRT # InitialMedianRT
    /\ maxRT = 2 * medianRT
    /\ maxRT # InitialMaxRT
    /\ ArmedForMaxRT

\* ceil((trialsNumber - trialsCount) / (3 - phaseIdx)): the trials the
\* phase is expected to take.
PhaseTrials(trialsCount, phaseIdx) ==
    CeilDiv(Max(0, params.trialsNumber - trialsCount), 3 - phaseIdx)
\* The least target a phase can have.
LeastTarget == Max(Pts(minScore), (minTrialsPerPhase * Pts(minScore)) \div 2)
\* The target with expectedFastCount = exactly half of the phase's trials.
HalfTarget(trialsCount, phaseIdx) ==
    Max(LeastTarget, (PhaseTrials(trialsCount, phaseIdx) * Pts(minScore)) \div 2)
\* The target with expectedFastCount = half of the phase's trials, rounded down.
FloorTarget(trialsCount, phaseIdx) ==
    Max(LeastTarget, (PhaseTrials(trialsCount, phaseIdx) \div 2) * Pts(minScore))
\* The targets set so far.
TargetsSet == {i \in 1..3 : phaseRequiredScores[i] # 0}

\* C22 as stated: in the adaptive level computePhaseTarget(phaseIdx) is
\* max(minScore, (minTrialsPerPhase/2) * minScore, expectedFastCount *
\* minScore) with expectedFastCount = 50% of ceil((trialsNumber -
\* trialsCount) / (3 - phaseIdx)), and every target is at least
\* max(minScore, (minTrialsPerPhase/2) * minScore).
C22_Original ==
    params.level = "level1" =>
        /\ \A ph \in 0..2 : computePhaseTarget(St, ph) = HalfTarget(trials, ph)
        /\ \A i \in TargetsSet : phaseRequiredScores[i] >= LeastTarget

\* C22 amended: expectedFastCount is 50% of ceil((trialsNumber -
\* trialsCount) / (3 - phaseIdx)) rounded down to a whole number; the
\* target of a phase is that value for the trialsCount at the moment the
\* phase begins (the level start, or the start of the break before it),
\* and every target is at least max(minScore, (minTrialsPerPhase/2) * minScore).
C22_Target ==
    params.level = "level1" =>
        /\ \A ph \in 0..2 : computePhaseTarget(St, ph) = FloorTarget(trials, ph)
        /\ \A i \in TargetsSet : phaseRequiredScores[i] >= LeastTarget
        /\ trials = 0 => phaseRequiredScores[1] = FloorTarget(0, 0)
        /\ inBreak => phaseRequiredScores[phaseIndex + 1] = FloorTarget(trials, phaseIndex)

\* A phase begins whose expected number of trials is odd: 5 trials, 2 of
\* them expected Fast, target 200.
C22_Witness ==
    /\ params.level = "level1"
    /\ inBreak
    /\ PhaseTrials(trials, phaseIndex) = 5
    /\ phaseRequiredScores[phaseIndex + 1] = Pts(200)
    /\ HalfTarget(trials, phaseIndex) = Pts(250)

\* The three waits of a playing level.
WaitingForISI == IsiTimers # {} /\ ~stimulus.visible
WaitingForResponse == stimulus.visible /\ TimeoutTimers # {}
WaitingForSpace == inBreak
WaitCount ==
    Cardinality({w \in {"isi", "response", "space"} :
                    \/ w = "isi" /\ WaitingForISI
                    \/ w = "response" /\ WaitingForResponse
                    \/ w = "space" /\ WaitingForSpace})

\* C23: whenever the level is playing it is in exactly one of three waits:
\* an ISI timer armed with no stimulus visible, a stimulus visible with its
\* timeout timer armed, or a phase break awaiting SPACE; no playing state
\* has none of them.
C23_OneWait == gameState = "playing" => WaitCount = 1

\* The level has been through all three waits: it waits for the ISI after
\* a break that followed an answered stimulus.
C23_Witness ==
    /\ gameState = "playing"
    /\ WaitingForISI
    /\ phaseIndex >= 1
    /\ finishCalls >= 1
    /\ timers = IsiTimers

\* C24: in level 1 every ArrowDown press made while the level is playing
\* pushes exactly one data record, presses made during the exit animation
\* of the previous stimulus included.
C24_RecordPerPress ==
    (params.level = "level1" /\ gameState = "playing") =>
        \A rt \in PressRTs :
            Len(handleKeyDown(St, "ArrowDown", rt).data) = Len(data) + 1

\* The difficulties a stimulus of phase ph (1..3) can have.
PhaseDifficulties(ph) ==
    IF ph = 1 THEN {"congruent"}
    ELSE IF ph = 2 THEN {"congruent", "neutral"}
    ELSE {"congruent", "incongruent"}

\* C25: in the directional level a phase-1 stimulus is congruent, a phase-2
\* stimulus congruent or neutral, a phase-3 stimulus congruent or
\* incongruent, and the log reflects it: no record with Phase = 3 has
\* Difficulty "neutral", none with Phase = 1 or 2 has "incongruent".
C25_DifficultyByPhase ==
    params.level = "level2" =>
        /\ stimulus.visible => stimulus.difficulty \in PhaseDifficulties(phaseIndex + 1)
        /\ \A i \in 1..Len(data) :
              /\ data[i].Phase = 3 => data[i].Difficulty # "neutral"
              /\ data[i].Phase \in {1, 2} => data[i].Difficulty # "incongruent"

\* ceil(trialsNumber / 3): the stimuli a phase of the fixed-target level
\* is sized for.
PerPhaseTrials == CeilDiv(params.trialsNumber, 3)
\* The records logged in phase ph (1..3).
RecordsOfPhase(ph) == {i \in 1..Len(data) : data[i].Phase = ph}

\* Some step of the attentive player's run can be taken: an ISI timer is
\* armed, the visible stimulus has a Fast answer, a frame changes the
\* state, or a ready break can be dismissed.
CanStep ==
    \/ IsiTimers # {}
    \/ /\ AwaitingResponse
       /\ \E key \in ResponseKeys, rt \in PlayRTs :
              classifyResponse(St, key, rt).type = "fast"
    \/ \E exitOver \in BOOLEAN, elapsed \in 0..2 : update(St, exitOver, elapsed) # St
    \/ inBreak /\ breakState = "ready"

\* C26: in the fixed-target level, when every stimulus is answered with a
\* correct Fast response and every ready break is dismissed, no phase takes
\* more than ceil(trialsNumber/3) stimuli, the level is Done once
\* 3 * ceil(trialsNumber/3) stimuli have been answered, and until it is
\* Done there is always a next step (a timer, an answer, a frame, SPACE).
C26_Termination ==
    params.level = "level2" =>
        /\ \A ph \in 1..3 : Cardinality(RecordsOfPhase(ph)) <= PerPhaseTrials
        /\ trials <= 3 * PerPhaseTrials
        /\ finishCalls = 3 * PerPhaseTrials => gameState = "done"
        /\ gameState = "playing" => CanStep

\* The level is Done after exactly 3 * ceil(5/3) = 6 stimuli, 2 per phase.
C26_Witness ==
    /\ params.level = "level2"
    /\ gameState = "done"
    /\ PerPhaseTrials = 2
    /\ trials = 6
    /\ \A ph \in 1..3 : Cardinality(RecordsOfPhase(ph)) = 2

\* gameDifficulty >= 1.
DifficultyAtLeastOne == params.dNum >= params.dDen /\ params.dDen > 0
\* A step in which the RT of a Fast response is admitted to the median.
FastAdmission ==
    /\ FinishStep
    /\ lastOutcome'.type = "fast"
    /\ Len(reactionTimes') = Len(reactionTimes) + 1

\* C27: with gameDifficulty >= 1, admitting the RT of a Fast response never
\* increases medianRT, so the threshold and the maxRT of the next trial
\* (medianRT / gameDifficulty and 2 * medianRT) are never larger than those
\* of the trial just answered.
C27_FastTightens ==
    [][(DifficultyAtLeastOne /\ FastAdmission) =>
         /\ medianRT' <= medianRT
         /\ getEffectiveThreshold(St)'[1] <= getEffectiveThreshold(St)[1]
         /\ getEffectiveThreshold(St)'[2] = getEffectiveThreshold(St)[2]
         /\ 2 * medianRT' <= maxRT]_vars

\* A Fast response has pulled the median down from 1500 to 1000.
C27_Witness ==
    /\ DifficultyAtLeastOne
    /\ lastOutcome.type = "fast"
    /\ reactionTimes = <<1500, 500>>
    /\ medianRT = 1000
    /\ maxRT = 3000

\* C28: whenever the level is playing outside a break, phaseFloorScore <=
\* score < phaseFloorScore + phaseRequiredScores[phaseIndex]; an outcome
\* with non-positive points (Timeout, Early, Error, baseline Slow) never
\* starts a break or ends the level.
C28_ScoreWindow ==
    [][/\ (gameState' = "playing" /\ ~inBreak') =>
             /\ phaseFloorScore' <= score'
             /\ score' < phaseFloorScore' + phaseRequiredScores'[phaseIndex' + 1]
       /\ (FinishStep /\ lastOutcome'.points <= 0) =>
             /\ ~BreakBegins
             /\ ~LevelEnds
             /\ phaseIndex' = phaseIndex]_vars

\* A penalty has just left a playing level inside the window of its
\* phase, above the floor and below the target, and a trial is scheduled.
C28_Witness ==
    /\ gameState = "playing" /\ ~inBreak
    /\ lastOutcome.points < 0
    /\ phaseFloorScore < score
    /\ score < phaseFloorScore + phaseRequiredScores[phaseIndex + 1]
    /\ IsiTimers # {}

\* A step that appends a record, and the record it appends.
Appends == FinishStep /\ Len(data') = Len(data) + 1
NewRecord == data'[Len(data')]
\* The outcome is a penalty the floor absorbs: the score was at the floor.
AbsorbedPenalty == lastOutcome'.points < 0 /\ score = phaseFloorScore

\* C29 as stated: a record's ScoreChange is the outcome's raw points and
\* its Score the post-clamp score before any break adjustment; a penalty
\* absorbed by the floor is logged with a negative ScoreChange and the
\* Score of the previous record; the record of the trial that completes a
\* phase keeps the pre-break Score.
C29_Original ==
    [][Appends =>
         /\ NewRecord.ScoreChange = lastOutcome'.points
         /\ NewRecord.Score = PostClampScore
         /\ (AbsorbedPenalty /\ data # <<>>) =>
               /\ NewRecord.ScoreChange < 0
               /\ NewRecord.Score = LastRecord.Score]_vars

\* C29 amended: as stated, except that a penalty absorbed by the floor is
\* logged with a Score equal to the floor, the score before the penalty;
\* that is the previous record's Score when that record belongs to the
\* same phase, and can be below it when that record completed the
\* previous phase (it keeps its pre-break Score, surplus included).
C29_LoggedScore ==
    [][Appends =>
         /\ NewRecord.ScoreChange = lastOutcome'.points
         /\ NewRecord.Score = PostClampScore
         /\ AbsorbedPenalty =>
               /\ NewRecord.ScoreChange < 0
               /\ NewRecord.Score = score
               /\ NewRecord.Score = phaseFloorScore
         /\ (AbsorbedPenalty /\ data # <<>>) =>
               /\ LastRecord.Phase = NewRecord.Phase => NewRecord.Score = LastRecord.Score
               /\ LastRecord.Phase # NewRecord.Phase => NewRecord.Score <= LastRecord.Score
         /\ BreakBegins =>
               /\ NewRecord.Phase = phaseIndex + 1
               /\ NewRecord.Score >= score'
               /\ NewRecord.Score >= phaseFloorScore']_vars

\* An Early press right after a break is absorbed by the new floor 200;
\* the record before it, which completed the phase, shows 300.
C29_Witness ==
    /\ Len(data) >= 2
    /\ LastRecord.ScoreChange < 0
    /\ LastRecord.Score = phaseFloorScore
    /\ LastRecord.Score = Pts(200)
    /\ data[Len(data) - 1].Score = Pts(300)
    /\ data[Len(data) - 1].Phase = LastRecord.Phase - 1

\* The phase-end comparison is true for a score that has every target.
ComparisonCanHold ==
    LET s == checkForPhaseOrLevelEnd([St EXCEPT !.score = Pts(9 * maxScore)])
    IN  s.inBreak \/ s.gameState = "done"

\* C30: when createGameTrial is called without a trialsNumber option the
\* level runs with its own default trialsNumber and every phase target is
\* a finite positive number, so the phase-end comparison can become true.
C30_DefaultTrialsNumber ==
    /\ params.trialsNumber # Undefined
    /\ \A i \in TargetsSet : phaseRequiredScores[i] # NaN /\ phaseRequiredScores[i] > 0
    /\ (gameState = "playing" /\ ~inBreak) => ComparisonCanHold

====
